---------------------------- MODULE Spec2Model ----------------------------
(***************************************************************************)
(* pwho: PROXY protocol v1 probing of a stream connection.                 *)
(*                                                                         *)
(* The model follows src/pwho/__init__.py: the SocketBuffer adapter (an    *)
(* io.BytesIO in front of a socket), read_line, parse_line and             *)
(* StreamRequestMixin.proxy_protocol.  Bytes are their ASCII codes and a   *)
(* byte string is a sequence of them.                                      *)
(***************************************************************************)
EXTENDS Integers, Sequences, FiniteSets, TLC

(***************************************************************************)
(* Byte strings                                                            *)
(***************************************************************************)
CR == 13
LF == 10
SP == 32
DOT == 46
COLON == 58

\* CRLF = b'\r\n'
CRLF == <<CR, LF>>

\* b'PROXY'
PROXY == <<80, 82, 79, 88, 89>>

\* b'TCP4', b'TCP6'
TCP4 == <<84, 67, 80, 52>>
TCP6 == <<84, 67, 80, 54>>

Min(a, b) == IF a < b THEN a ELSE b

\* data[:n] and data[n:] for 0 <= n
Take(s, n) == SubSeq(s, 1, Min(n, Len(s)))
Drop(s, n) == SubSeq(s, Min(n, Len(s)) + 1, Len(s))

\* bytes.startswith / bytes.endswith
startswith(s, p) == Len(s) >= Len(p) /\ Take(s, Len(p)) = p
endswith(s, p) == Len(s) >= Len(p) /\ Drop(s, Len(s) - Len(p)) = p

\* a find that reports the last CRLF instead of the first
rfind(data) ==
    LET hits == {i \in 1..(Len(data) - 1) : data[i] = CR /\ data[i + 1] = LF}
    IN IF hits = {} THEN -1
       ELSE (CHOOSE i \in hits : \A j \in hits : i >= j) - 1

\* data.find(CRLF): 0-based offset of the first CRLF, or -1
find(data) ==
    LET hits == {i \in 1..(Len(data) - 1) : data[i] = CR /\ data[i + 1] = LF}
    IN IF hits = {} THEN -1
       ELSE (CHOOSE i \in hits : \A j \in hits : i <= j) - 1

\* bytes.split(sep) for a one-byte separator: always at least one field
RECURSIVE split(_, _)
split(s, sep) ==
    LET cuts == {i \in 1..Len(s) : s[i] = sep}
    IN IF cuts = {} THEN <<s>>
       ELSE LET i == CHOOSE c \in cuts : \A d \in cuts : c <= d
            IN <<SubSeq(s, 1, i - 1)>> \o split(SubSeq(s, i + 1, Len(s)), sep)

(***************************************************************************)
(* io.BytesIO: the content and the stream position.  write overwrites at   *)
(* the position and extends the content; truncate cuts at the position.    *)
(***************************************************************************)
BytesIO == [val |-> <<>>, pos |-> 0]

getvalue(b) == b.val

tell(b) == b.pos

seek(b, p) == [b EXCEPT !.pos = p]

\* a write that leaves the position where it was
write_in_place(b, data) ==
    [val |-> Take(b.val, b.pos) \o data \o Drop(b.val, b.pos + Len(data)),
     pos |-> b.pos]

write(b, data) ==
    [val |-> Take(b.val, b.pos) \o data \o Drop(b.val, b.pos + Len(data)),
     pos |-> b.pos + Len(data)]

truncate(b) == [b EXCEPT !.val = Take(b.val, b.pos)]

(***************************************************************************)
(* Values returned or raised by the operations                             *)
(***************************************************************************)
None == [kind |-> "None"]

Bytes(data) == [kind |-> "bytes", data |-> data]

ProxyInfo(sa, sp, da, dp) ==
    [kind |-> "ProxyInfo", source_address |-> sa, source_port |-> sp,
     destination_address |-> da, destination_port |-> dp]

\* exc.LineTooLong(length, limit)
LineTooLong(length, limit) ==
    [kind |-> "LineTooLong", length |-> length, limit |-> limit]

\* exc.NoLine(size)
NoLine(size) == [kind |-> "NoLine", size |-> size]

\* exc.InvalidLine(reason, line): the second argument becomes .line
InvalidLine(reason, line) ==
    [kind |-> "InvalidLine", reason |-> reason, line |-> line]

ValueError == [kind |-> "ValueError"]

\* socket.error, raised by a receive on a closed socket
SocketError == [kind |-> "socket.error"]

\* a text (as opposed to a byte string read from the wire)
Text(t) == [text |-> t]

\* text.format(arg)
Format(t, arg) == [text |-> t, arg |-> arg]

IsReadError(r) == r.kind \in {"LineTooLong", "NoLine"}
IsParseError(r) == r.kind = "InvalidLine"

(***************************************************************************)
(* parse_line                                                              *)
(***************************************************************************)
IsDigit(c) == c \in 48..57
IsHex(c) == c \in 48..57 \/ c \in 65..70 \/ c \in 97..102
IsSpace(c) == c \in {9, 10, 11, 12, 13, 32}

RECURSIVE DecVal(_)
DecVal(s) ==
    IF s = <<>> THEN 0
    ELSE 10 * DecVal(SubSeq(s, 1, Len(s) - 1)) + (s[Len(s)] - 48)

AllDigits(s) == s # <<>> /\ \A i \in 1..Len(s) : IsDigit(s[i])

\* socket.inet_pton(AF_INET, addr) succeeds: four dotted decimal octets,
\* each at most 255 and without a leading zero
inet_pton4(addr) ==
    LET q == split(addr, DOT)
    IN /\ Len(q) = 4
       /\ \A i \in 1..4 :
            /\ AllDigits(q[i])
            /\ Len(q[i]) <= 3
            /\ (Len(q[i]) > 1 => q[i][1] # 48)
            /\ DecVal(q[i]) <= 255

\* socket.inet_pton(AF_INET6, addr) succeeds: groups of 1..4 hex digits
\* separated by colons, eight of them or fewer around one "::"
inet_pton6(addr) ==
    LET g == split(addr, COLON)
        n == Len(g)
        empties == {i \in 1..n : g[i] = <<>>}
        hexgroup(x) == /\ Len(x) \in 1..4
                       /\ \A i \in 1..Len(x) : IsHex(x[i])
        inner == {i \in empties : 1 < i /\ i < n}
    IN /\ \A i \in 1..n : g[i] = <<>> \/ hexgroup(g[i])
       /\ \/ empties = {} /\ n = 8
          \/ /\ Cardinality(inner) = 1 /\ n <= 8
             /\ empties \subseteq inner \cup {1, n}
             /\ (1 \in empties => 2 \in inner)
             /\ (n \in empties => (n - 1) \in inner)
          \/ /\ n = 3 /\ empties = {1, 2, 3}

\* s.strip() of the whitespace int() ignores
RECURSIVE strip(_)
strip(s) ==
    IF s = <<>> THEN s
    ELSE IF IsSpace(s[1]) THEN strip(Tail(s))
    ELSE IF IsSpace(s[Len(s)]) THEN strip(SubSeq(s, 1, Len(s) - 1))
    ELSE s

\* int(s) does not raise ValueError: optional sign, then decimal digits
IsInt(s) ==
    LET t == strip(s)
        d == IF t # <<>> /\ t[1] \in {43, 45} THEN Tail(t) ELSE t
    IN AllDigits(d)

\* int(s)
int(s) ==
    LET t == strip(s)
    IN IF t # <<>> /\ t[1] = 45 THEN 0 - DecVal(Tail(t))
       ELSE IF t # <<>> /\ t[1] = 43 THEN DecVal(Tail(t))
       ELSE DecVal(t)

\* a parse_line that takes the source from the destination fields and the
\* destination from the source fields
parse_line_swapped_ends(line) ==
    IF ~startswith(line, PROXY)
    THEN InvalidLine(Text("Missing \"PROXY\" prefix"), line)
    ELSE IF ~endswith(line, CRLF)
    THEN InvalidLine(Text("Missing \"\\r\\n\" terminal"), line)
    ELSE LET parts == split(Take(line, Len(line) - Len(CRLF)), SP)
         IN IF Len(parts) # 6
            THEN InvalidLine(Text("Expected 6 \" \" delimited parts"), line)
            ELSE LET inet == parts[2]
                     src_addr == parts[3]
                     dst_addr == parts[4]
                 IN IF inet = TCP4 /\ ~(inet_pton4(src_addr) /\ inet_pton4(dst_addr))
                    THEN InvalidLine(Format("Invalid INET {0} address(es)", inet), line)
                    ELSE IF inet = TCP6 /\ ~(inet_pton6(src_addr) /\ inet_pton6(dst_addr))
                    THEN InvalidLine(Format("Invalid INET {0} address(es)", inet), line)
                    ELSE IF inet # TCP4 /\ inet # TCP6
                    THEN InvalidLine(Format("Unsupported INET \"{0}\"", inet), line)
                    ELSE IF ~(IsInt(parts[5]) /\ IsInt(parts[6]))
                    THEN InvalidLine(line, Text("Invalid port"))
                    ELSE ProxyInfo(dst_addr, int(parts[6]), src_addr, int(parts[5]))

\* a parse_line that tests the terminator before the prefix
parse_line_terminal_first(line) ==
    IF ~endswith(line, CRLF)
    THEN InvalidLine(Text("Missing \"\\r\\n\" terminal"), line)
    ELSE IF ~startswith(line, PROXY)
    THEN InvalidLine(Text("Missing \"PROXY\" prefix"), line)
    ELSE LET parts == split(Take(line, Len(line) - Len(CRLF)), SP)
         IN IF Len(parts) # 6
            THEN InvalidLine(Text("Expected 6 \" \" delimited parts"), line)
            ELSE LET inet == parts[2]
                     src_addr == parts[3]
                     dst_addr == parts[4]
                 IN IF inet = TCP4 /\ ~(inet_pton4(src_addr) /\ inet_pton4(dst_addr))
                    THEN InvalidLine(Format("Invalid INET {0} address(es)", inet), line)
                    ELSE IF inet = TCP6 /\ ~(inet_pton6(src_addr) /\ inet_pton6(dst_addr))
                    THEN InvalidLine(Format("Invalid INET {0} address(es)", inet), line)
                    ELSE IF inet # TCP4 /\ inet # TCP6
                    THEN InvalidLine(Format("Unsupported INET \"{0}\"", inet), line)
                    ELSE IF ~(IsInt(parts[5]) /\ IsInt(parts[6]))
                    THEN InvalidLine(line, Text("Invalid port"))
                    ELSE ProxyInfo(src_addr, int(parts[5]), dst_addr, int(parts[6]))

\* parse_line(line): the ProxyInfo it returns or the InvalidLine it raises
parse_line(line) ==
    IF ~startswith(line, PROXY)
    THEN InvalidLine(Text("Missing \"PROXY\" prefix"), line)
    ELSE IF ~endswith(line, CRLF)
    THEN InvalidLine(Text("Missing \"\\r\\n\" terminal"), line)
    ELSE LET parts == split(Take(line, Len(line) - Len(CRLF)), SP)
         IN IF Len(parts) # 6
            THEN InvalidLine(Text("Expected 6 \" \" delimited parts"), line)
            ELSE LET inet == parts[2]
                     src_addr == parts[3]
                     dst_addr == parts[4]
                 IN IF inet = TCP4 /\ ~(inet_pton4(src_addr) /\ inet_pton4(dst_addr))
                    THEN InvalidLine(Format("Invalid INET {0} address(es)", inet), line)
                    ELSE IF inet = TCP6 /\ ~(inet_pton6(src_addr) /\ inet_pton6(dst_addr))
                    THEN InvalidLine(Format("Invalid INET {0} address(es)", inet), line)
                    ELSE IF inet # TCP4 /\ inet # TCP6
                    THEN InvalidLine(Format("Unsupported INET \"{0}\"", inet), line)
                    ELSE IF ~(IsInt(parts[5]) /\ IsInt(parts[6]))
                    THEN InvalidLine(line, Text("Invalid port"))
                    ELSE ProxyInfo(src_addr, int(parts[5]), dst_addr, int(parts[6]))


(***************************************************************************)
(* Bounds of the model and the inputs drawn from them                      *)
(***************************************************************************)
\* the application receives with bufsize in 1..MaxRecv
MaxRecv == 3
\* the application pushes back its last 1..MaxUnread bytes
MaxUnread == 2
\* limit arguments up to MaxLimit, besides no limit and the tests' limit
MaxLimit == 4
\* proxy_protocol(limit=1024) of the tests' request handler
TestLimit == 1024
\* read_line(sock, buffer, read_size=256, limit=None)
read_size == 256

\* limit=None and limit=0 are both false in "if limit and ..."
NoLimit == 0
Limits == {NoLimit} \cup (3..MaxLimit) \cup {TestLimit}

\* b'hi', b'yo'
Hi == <<104, 105>>
Yo == <<121, 111>>
\* b'::1', b'::2'
Addr1 == <<COLON, COLON, 49>>
Addr2 == <<COLON, COLON, 50>>
\* b'PROXY TCP6 ::1 ::2 5 6\r\n'
V6Line ==
    PROXY \o <<SP>> \o TCP6 \o <<SP>> \o Addr1 \o <<SP>> \o Addr2
          \o <<SP, 53, SP, 54>> \o CRLF

\* what the peer sends before it closes its side
Streams ==
    { V6Line \o Hi \o CRLF,
      Hi \o CRLF \o Yo,
      PROXY \o <<SP, 88>> \o CRLF \o Hi \o CRLF,
      CRLF \o Hi,
      Hi,
      <<>> }

\* self.client_address: the proxy named by V6Line, or somebody else
ClientAddresses == { <<Addr2, 6>>, <<Addr1, 7>> }

Errors == {"raise", "unread", "ignore"}
Defaults == {"None", "peer"}

(***************************************************************************)
(* State                                                                   *)
(***************************************************************************)
VARIABLES
    stream,          \* every byte the peer sends on the connection
    client_address,  \* self.client_address
    sockPos,         \* how many bytes of stream the socket has handed out
    sockClosed,      \* sock.close() was called
    wrapped,         \* self.request is a SocketBuffer
    buf,             \* SocketBuffer.buf
    pc,              \* "idle", or "read_line" inside proxy_protocol
    args,            \* arguments of the running or just finished proxy_protocol
    ret,             \* what the last call returned or raised
    last,            \* the last call made on the handler or its request
    sockCalled,      \* the last call called recv on the underlying socket
    logical,         \* bytes taken out of self.request and not pushed back
    start,           \* Len(logical) when the last proxy_protocol began
    outcome,         \* how the last proxy_protocol ended, until recv is no
                     \* longer the only call made since
    got,             \* bytes received from self.request since it ended
    line,            \* the line the last read_line returned, if it did
    sock0,           \* sockPos when the last proxy_protocol began
    crlfSplit,       \* a socket read of the last read_line ended between
                     \* the CR and the LF of the first CRLF
    hookCalled,      \* the last call invoked self.proxy_authenticate
    again            \* the last proxy_protocol began right after one that
                     \* unread an invalid line

vars == <<stream, client_address, sockPos, sockClosed, wrapped, buf, pc, args,
          ret, last, sockCalled, logical, start, outcome, got, line, sock0,
          crlfSplit, hookCalled, again>>

NoArgs == [error |-> "-", default |-> "None", limit |-> NoLimit,
           authenticate |-> FALSE]

NoOutcome == <<"none", "-">>

\* the bytes the socket has not handed out yet
SockRest == Drop(stream, sockPos)

Init ==
    /\ stream \in Streams
    /\ client_address \in ClientAddresses
    /\ sockPos = 0
    /\ sockClosed = FALSE
    /\ wrapped \in BOOLEAN
    /\ buf = BytesIO
    /\ pc = "idle"
    /\ args = NoArgs
    /\ ret = None
    /\ last = "init"
    /\ sockCalled = FALSE
    /\ logical = <<>>
    /\ start = 0
    /\ outcome = NoOutcome
    /\ got = <<>>
    /\ line = <<>>
    /\ sock0 = 0
    /\ crlfSplit = FALSE
    /\ hookCalled = FALSE
    /\ again = FALSE

(***************************************************************************)
(* SocketBuffer                                                            *)
(***************************************************************************)
\* an unread that puts the bytes behind the pending ones
unread_behind(b, bytes) == write(seek(b, 0), getvalue(b) \o bytes)

\* an unread that writes the bytes over the pending ones
unread_overwrite(b, bytes) == write(seek(b, 0), bytes)

\* SocketBuffer.unread(bytes)
unread(b, bytes) == write(seek(b, 0), bytes \o getvalue(b))

\* a recv that leaves out self.buf.truncate()
recv_no_truncate(b, bufsize) ==
    LET data == getvalue(b)
        b0 == seek(b, 0)
    IN IF Len(data) > bufsize
       THEN [buf |-> write(b0, Drop(data, bufsize)),
             data |-> Take(data, bufsize)]
       ELSE [buf |-> b0, data |-> data]

\* SocketBuffer.recv(bufsize) when self.buf.tell() is not 0
recv(b, bufsize) ==
    LET data == getvalue(b)
        b0 == seek(b, 0)
    IN IF Len(data) > bufsize
       THEN [buf |-> truncate(write(b0, Drop(data, bufsize))),
             data |-> Take(data, bufsize)]
       ELSE [buf |-> truncate(b0), data |-> data]

\* a close that leaves the buffer as it is
close_keeps_buffer(b) == b

\* SocketBuffer.close(): the buffer part
close(b) == truncate(seek(b, 0))

\* sock.recv(bufsize) on an open socket: how many bytes it may return; it
\* blocks until there is at least one and returns none once the peer closed
sock_recv(bufsize) ==
    IF SockRest = <<>> THEN {0} ELSE 1..Min(bufsize, Len(SockRest))

\* the application calls self.request.recv(n)
Recv(n) ==
    /\ pc = "idle"
    /\ last' = "recv"
    /\ IF wrapped /\ tell(buf) # 0
       THEN LET r == recv(buf, n)
            IN /\ buf' = r.buf
               /\ ret' = Bytes(r.data)
               /\ sockCalled' = FALSE
               /\ UNCHANGED sockPos
       ELSE /\ sockCalled' = TRUE
            /\ UNCHANGED buf
            /\ IF sockClosed
               THEN ret' = SocketError /\ UNCHANGED sockPos
               ELSE \E k \in sock_recv(n) :
                       /\ ret' = Bytes(Take(SockRest, k))
                       /\ sockPos' = sockPos + k
    /\ logical' = IF ret'.kind = "bytes" THEN logical \o ret'.data ELSE logical
    /\ got' = IF ret'.kind = "bytes" /\ outcome[1] # "none"
              THEN got \o ret'.data ELSE got
    /\ args' = NoArgs
    /\ hookCalled' = FALSE /\ again' = FALSE
    /\ UNCHANGED <<stream, client_address, sockClosed, wrapped, pc, start,
                   outcome, line, sock0, crlfSplit>>

\* the application pushes back the last k bytes taken out of self.request,
\* on a connection it has not closed: self.request.unread(b)
Unread(k) ==
    /\ pc = "idle"
    /\ wrapped
    /\ ~sockClosed
    /\ k <= Len(logical)
    /\ buf' = unread(buf, Drop(logical, Len(logical) - k))
    /\ logical' = Take(logical, Len(logical) - k)
    /\ ret' = None
    /\ last' = "unread"
    /\ sockCalled' = FALSE
    /\ outcome' = NoOutcome /\ got' = <<>> /\ start' = 0 /\ args' = NoArgs
    /\ line' = <<>> /\ sock0' = 0 /\ crlfSplit' = FALSE
    /\ hookCalled' = FALSE /\ again' = FALSE
    /\ UNCHANGED <<stream, client_address, sockPos, sockClosed, wrapped, pc>>

\* the application calls self.request.close()
Close ==
    /\ pc = "idle"
    /\ ~sockClosed
    /\ buf' = IF wrapped THEN close(buf) ELSE buf
    /\ sockClosed' = TRUE
    /\ ret' = None
    /\ last' = "close"
    /\ sockCalled' = FALSE
    /\ outcome' = NoOutcome /\ got' = <<>> /\ start' = 0 /\ args' = NoArgs
    /\ line' = <<>> /\ sock0' = 0 /\ crlfSplit' = FALSE
    /\ hookCalled' = FALSE /\ again' = FALSE
    /\ UNCHANGED <<stream, client_address, sockPos, wrapped, pc, logical>>

(***************************************************************************)
(* read_line and proxy_protocol                                            *)
(***************************************************************************)
\* a read_line that drops what it read past the line
read_line_drops_rest(b, limit) ==
    LET data == getvalue(b)
        idx == find(data)
    IN IF idx >= 0
       THEN IF limit # NoLimit /\ idx + 2 > limit
            THEN [do |-> "raise", exc |-> LineTooLong(idx, limit), buf |-> b]
            ELSE [do |-> "return", line |-> Take(data, idx + 2),
                  buf |-> truncate(seek(b, 0))]
       ELSE IF limit # NoLimit /\ Len(data) + 2 > limit
            THEN [do |-> "raise", exc |-> LineTooLong(Len(data), limit),
                  buf |-> b]
            ELSE [do |-> "recv", buf |-> b]

\* read_line: one pass of the loop over the buffer, up to the socket read.
\* It returns the line, raises LineTooLong, or goes on to sock.recv.
read_line(b, limit) ==
    LET data == getvalue(b)
        idx == find(data)
    IN IF idx >= 0
       THEN IF limit # NoLimit /\ idx + 2 > limit
            THEN [do |-> "raise", exc |-> LineTooLong(idx, limit), buf |-> b]
            ELSE [do |-> "return", line |-> Take(data, idx + 2),
                  buf |-> truncate(write(seek(b, 0), Drop(data, idx + 2)))]
       ELSE IF limit # NoLimit /\ Len(data) + 2 > limit
            THEN [do |-> "raise", exc |-> LineTooLong(Len(data), limit),
                  buf |-> b]
            ELSE [do |-> "recv", buf |-> b]

\* a buffer.write(data) that writes at the start of the buffer
read_line_write_at_start(b, data) == write(seek(b, 0), data)

\* read_line: buffer.write(data) after sock.recv returned data
read_line_write(b, data) == write(b, data)

\* a NoLine that reports the size of the empty read
no_line_of_read(b) == NoLine(0)

\* read_line: sock.recv returned no data
no_line(b) == NoLine(Len(getvalue(b)))

\* StreamRequestMixin.proxy_authenticate(info)
proxy_authenticate(info, peer) ==
    <<info.destination_address, info.destination_port>> = peer

\* proxy_protocol: the value of default after "if default == 'peer'"
default_value(default, peer) ==
    IF default = "peer"
    THEN ProxyInfo(peer[1], peer[2], peer[1], peer[2])
    ELSE None

\* an except exc.ReadError that throws the buffered bytes away
on_read_error_discards(b, exc, a, peer) ==
    IF IsReadError(exc)
    THEN [buf |-> close(b),
          ret |-> IF a.error = "raise" THEN exc
                  ELSE default_value(a.default, peer),
          outcome |-> <<exc.kind, a.error>>,
          taken |-> <<>>, line |-> <<>>,
          hook |-> FALSE]
    ELSE [buf |-> b, ret |-> exc, outcome |-> <<exc.kind, "raise">>,
          taken |-> <<>>, line |-> <<>>,
          hook |-> FALSE]

\* proxy_protocol after read_line raised exc: except exc.ReadError
on_read_error(b, exc, a, peer) ==
    IF IsReadError(exc)
    THEN [buf |-> b,
          ret |-> IF a.error = "raise" THEN exc
                  ELSE default_value(a.default, peer),
          outcome |-> <<exc.kind, a.error>>,
          taken |-> <<>>, line |-> <<>>,
          hook |-> FALSE]
    ELSE [buf |-> b, ret |-> exc, outcome |-> <<exc.kind, "raise">>,
          taken |-> <<>>, line |-> <<>>,
          hook |-> FALSE]

\* an except exc.ParseError without self.request.unread(line)
on_line_no_unread(b, ln, a, peer) ==
    LET info == parse_line(ln)
    IN IF IsParseError(info)
       THEN IF a.error = "raise"
            THEN [buf |-> b, ret |-> info,
                  outcome |-> <<"InvalidLine", "raise">>,
                  taken |-> ln, line |-> ln,
                  hook |-> FALSE]
            ELSE [buf |-> b,
                  ret |-> default_value(a.default, peer),
                  outcome |-> <<"InvalidLine", "unread">>,
                  taken |-> <<>>, line |-> ln,
                  hook |-> FALSE]
       ELSE IF a.authenticate /\ ~proxy_authenticate(info, peer)
            THEN [buf |-> b, ret |-> default_value(a.default, peer),
                  outcome |-> <<"ProxyInfo", "rejected">>,
                  taken |-> ln, line |-> ln,
                  hook |-> TRUE]
            ELSE [buf |-> b, ret |-> info,
                  outcome |-> <<"ProxyInfo", "returned">>,
                  taken |-> ln, line |-> ln,
                  hook |-> a.authenticate]

\* an except exc.ParseError that unreads before it tests error == 'raise'
on_line_unread_first(b, ln, a, peer) ==
    LET info == parse_line(ln)
    IN IF IsParseError(info)
       THEN IF a.error = "raise"
            THEN [buf |-> unread(b, ln), ret |-> info,
                  outcome |-> <<"InvalidLine", "raise">>,
                  taken |-> ln, line |-> ln,
                  hook |-> FALSE]
            ELSE [buf |-> unread(b, ln),
                  ret |-> default_value(a.default, peer),
                  outcome |-> <<"InvalidLine", "unread">>,
                  taken |-> <<>>, line |-> ln,
                  hook |-> FALSE]
       ELSE IF a.authenticate /\ ~proxy_authenticate(info, peer)
            THEN [buf |-> b, ret |-> default_value(a.default, peer),
                  outcome |-> <<"ProxyInfo", "rejected">>,
                  taken |-> ln, line |-> ln,
                  hook |-> TRUE]
            ELSE [buf |-> b, ret |-> info,
                  outcome |-> <<"ProxyInfo", "returned">>,
                  taken |-> ln, line |-> ln,
                  hook |-> a.authenticate]

\* a proxy_protocol that returns the parsed info although the hook refused it
on_line_fail_open(b, ln, a, peer) ==
    LET info == parse_line(ln)
    IN IF IsParseError(info)
       THEN IF a.error = "raise"
            THEN [buf |-> b, ret |-> info,
                  outcome |-> <<"InvalidLine", "raise">>,
                  taken |-> ln, line |-> ln,
                  hook |-> FALSE]
            ELSE [buf |-> unread(b, ln),
                  ret |-> default_value(a.default, peer),
                  outcome |-> <<"InvalidLine", "unread">>,
                  taken |-> <<>>, line |-> ln,
                  hook |-> FALSE]
       ELSE IF a.authenticate /\ ~proxy_authenticate(info, peer)
            THEN [buf |-> b, ret |-> info,
                  outcome |-> <<"ProxyInfo", "rejected">>,
                  taken |-> ln, line |-> ln,
                  hook |-> TRUE]
            ELSE [buf |-> b, ret |-> info,
                  outcome |-> <<"ProxyInfo", "returned">>,
                  taken |-> ln, line |-> ln,
                  hook |-> a.authenticate]

\* proxy_protocol after read_line returned ln, b being the buffer it left
on_line(b, ln, a, peer) ==
    LET info == parse_line(ln)
    IN IF IsParseError(info)
       THEN IF a.error = "raise"
            THEN [buf |-> b, ret |-> info,
                  outcome |-> <<"InvalidLine", "raise">>,
                  taken |-> ln, line |-> ln,
                  hook |-> FALSE]
            ELSE [buf |-> unread(b, ln),
                  ret |-> default_value(a.default, peer),
                  outcome |-> <<"InvalidLine", "unread">>,
                  taken |-> <<>>, line |-> ln,
                  hook |-> FALSE]
       ELSE IF a.authenticate /\ ~proxy_authenticate(info, peer)
            THEN [buf |-> b, ret |-> default_value(a.default, peer),
                  outcome |-> <<"ProxyInfo", "rejected">>,
                  taken |-> ln, line |-> ln,
                  hook |-> TRUE]
            ELSE [buf |-> b, ret |-> info,
                  outcome |-> <<"ProxyInfo", "returned">>,
                  taken |-> ln, line |-> ln,
                  hook |-> a.authenticate]

\* a proxy_protocol that wraps self.request in a new SocketBuffer each time
ProxyProtocol_rewraps(error, default, limit, authenticate) ==
    /\ pc = "idle"
    /\ logical = <<>> \/ last = "proxy_protocol"
    /\ start' = Len(logical)
    /\ sock0' = sockPos
    /\ got' = <<>>
    /\ line' = <<>>
    /\ crlfSplit' = FALSE
    /\ sockCalled' = FALSE
    /\ hookCalled' = FALSE
    /\ again' = (last = "proxy_protocol" /\ outcome = <<"InvalidLine", "unread">>)
    /\ IF error \notin {"raise", "unread"}
       THEN /\ ret' = ValueError
            /\ last' = "proxy_protocol"
            /\ outcome' = <<"ValueError", "raise">>
            /\ args' = [error |-> error, default |-> default, limit |-> limit,
                        authenticate |-> authenticate]
            /\ UNCHANGED <<wrapped, buf, pc>>
       ELSE /\ wrapped' = TRUE
            /\ buf' = BytesIO
            /\ args' = [error |-> error, default |-> default, limit |-> limit,
                        authenticate |-> authenticate]
            /\ pc' = "read_line"
            /\ outcome' = <<"running", error>>
            /\ ret' = None
            /\ last' = "proxy_protocol"
    /\ UNCHANGED <<stream, client_address, sockPos, sockClosed, logical>>

\* a proxy_protocol that wraps self.request before it tests error
ProxyProtocol_wraps_first(error, default, limit, authenticate) ==
    /\ pc = "idle"
    /\ logical = <<>> \/ last = "proxy_protocol"
    /\ start' = Len(logical)
    /\ sock0' = sockPos
    /\ got' = <<>>
    /\ line' = <<>>
    /\ crlfSplit' = FALSE
    /\ sockCalled' = FALSE
    /\ hookCalled' = FALSE
    /\ again' = (last = "proxy_protocol" /\ outcome = <<"InvalidLine", "unread">>)
    /\ IF error \notin {"raise", "unread"}
       THEN /\ ret' = ValueError
            /\ last' = "proxy_protocol"
            /\ outcome' = <<"ValueError", "raise">>
            /\ args' = [error |-> error, default |-> default, limit |-> limit,
                        authenticate |-> authenticate]
            /\ wrapped' = TRUE
            /\ buf' = IF wrapped THEN buf ELSE BytesIO
            /\ UNCHANGED pc
       ELSE /\ wrapped' = TRUE
            /\ buf' = IF wrapped THEN buf ELSE BytesIO
            /\ args' = [error |-> error, default |-> default, limit |-> limit,
                        authenticate |-> authenticate]
            /\ pc' = "read_line"
            /\ outcome' = <<"running", error>>
            /\ ret' = None
            /\ last' = "proxy_protocol"
    /\ UNCHANGED <<stream, client_address, sockPos, sockClosed, logical>>

\* proxy_protocol(error, default, limit, authenticate) up to read_line.  The
\* handler probes before it has taken anything from the connection, or
\* again right after a probe.
ProxyProtocol(error, default, limit, authenticate) ==
    /\ pc = "idle"
    /\ logical = <<>> \/ last = "proxy_protocol"
    /\ start' = Len(logical)
    /\ sock0' = sockPos
    /\ got' = <<>>
    /\ line' = <<>>
    /\ crlfSplit' = FALSE
    /\ sockCalled' = FALSE
    /\ hookCalled' = FALSE
    /\ again' = (last = "proxy_protocol" /\ outcome = <<"InvalidLine", "unread">>)
    /\ IF error \notin {"raise", "unread"}
       THEN /\ ret' = ValueError
            /\ last' = "proxy_protocol"
            /\ outcome' = <<"ValueError", "raise">>
            /\ args' = [error |-> error, default |-> default, limit |-> limit,
                        authenticate |-> authenticate]
            /\ UNCHANGED <<wrapped, buf, pc>>
       ELSE /\ wrapped' = TRUE
            /\ buf' = IF wrapped THEN buf ELSE BytesIO
            /\ args' = [error |-> error, default |-> default, limit |-> limit,
                        authenticate |-> authenticate]
            /\ pc' = "read_line"
            /\ outcome' = <<"running", error>>
            /\ ret' = None
            /\ last' = "proxy_protocol"
    /\ UNCHANGED <<stream, client_address, sockPos, sockClosed, logical>>

\* proxy_protocol returns or raises
Done(r) ==
    /\ buf' = r.buf
    /\ ret' = r.ret
    /\ outcome' = r.outcome
    /\ logical' = logical \o r.taken
    /\ line' = r.line
    /\ hookCalled' = r.hook
    /\ pc' = "idle"
    /\ UNCHANGED <<stream, client_address, sockClosed, wrapped, args, start,
                   got, sock0, last, again>>

\* one pass of read_line's loop inside proxy_protocol, and the rest of
\* proxy_protocol when read_line returns or raises
ReadLine ==
    /\ pc = "read_line"
    /\ LET c == read_line(buf, args.limit)
       IN IF c.do = "return"
          THEN Done(on_line(c.buf, c.line, args, client_address))
               /\ UNCHANGED <<sockPos, sockCalled, crlfSplit>>
          ELSE IF c.do = "raise"
          THEN Done(on_read_error(c.buf, c.exc, args, client_address))
               /\ UNCHANGED <<sockPos, sockCalled, crlfSplit>>
          ELSE IF sockClosed
          THEN Done(on_read_error(buf, SocketError, args, client_address))
               /\ sockCalled' = TRUE /\ UNCHANGED <<sockPos, crlfSplit>>
          ELSE \E k \in sock_recv(read_size) :
                  /\ sockCalled' = TRUE
                  /\ sockPos' = sockPos + k
                  /\ IF k = 0
                     THEN Done(on_read_error(buf, no_line(buf), args,
                                             client_address))
                          /\ UNCHANGED crlfSplit
                     ELSE /\ buf' = read_line_write(buf, Take(SockRest, k))
                          /\ crlfSplit' =
                               \/ crlfSplit
                               \/ /\ find(getvalue(buf')) = -1
                                  /\ endswith(getvalue(buf'), <<CR>>)
                                  /\ startswith(Drop(stream, sockPos'), <<LF>>)
                          /\ UNCHANGED <<stream, client_address, sockClosed,
                                         wrapped, pc, args, ret, last, logical,
                                         start, outcome, got, line, sock0,
                                         hookCalled, again>>

Next ==
    \/ \E n \in 1..MaxRecv : Recv(n)
    \/ \E k \in 1..MaxUnread : Unread(k)
    \/ Close
    \/ \E e \in Errors, d \in Defaults, l \in Limits, a \in BOOLEAN :
          ProxyProtocol(e, d, l, a)
    \/ ReadLine

Spec == Init /\ [][Next]_vars

(***************************************************************************)
(* parse_line on its own: it is given one line out of Lines                *)
(***************************************************************************)
\* lines of MaxParts - 2 up to MaxParts fields
MaxParts == 7

\* b' '.join(fields)
RECURSIVE join(_)
join(fields) ==
    IF fields = <<>> THEN <<>>
    ELSE IF Len(fields) = 1 THEN fields[1]
    ELSE fields[1] \o <<SP>> \o join(Tail(fields))

\* b'PROXY', b'PROXYX', b'PROX'
Firsts == { PROXY, PROXY \o <<88>>, <<80, 82, 79, 88>> }

\* b'UNKNOWN'
UNKNOWN == <<85, 78, 75, 78, 79, 87, 78>>
Inets == { TCP4, TCP6, UNKNOWN }

\* b'192.168.0.1', b'192.168.0.11', b'::1', b'fe80::B3FF', b'sry'
Addrs ==
    { <<49, 57, 50, DOT, 49, 54, 56, DOT, 48, DOT, 49>>,
      <<49, 57, 50, DOT, 49, 54, 56, DOT, 48, DOT, 49, 49>>,
      Addr1,
      <<102, 101, 56, 48, COLON, COLON, 66, 51, 70, 70>>,
      <<115, 114, 121>> }

\* b'5', b'443', b'abc', b'+5', b'\t5', b''
Ports == { <<53>>, <<52, 52, 51>>, <<97, 98, 99>>, <<43, 53>>, <<9, 53>>, <<>> }

\* b'x'
Extra == <<120>>

\* the six fields of a preamble
Preambles ==
    { <<first, inet, a1, a2, p1, p2>> :
        first \in Firsts, inet \in Inets, a1 \in Addrs, a2 \in Addrs,
        p1 \in Ports, p2 \in Ports }

\* the fields of a line of n fields: the first n of a preamble, or all six
\* followed by b'x' fields
FieldSeqs(n) ==
    { IF n <= 6 THEN SubSeq(f, 1, n)
      ELSE f \o [i \in 1..(n - 6) |-> Extra] : f \in Preambles }

\* b'\r\n', b'', b'\n'
Ends == { CRLF, <<>>, <<LF>> }

\* the lines of test_parse that are not made of fields
TestLines == { <<>>, CRLF, PROXY, join(<<PROXY, UNKNOWN>>) \o CRLF }

Lines ==
    TestLines \cup
    { join(f) \o e : f \in UNION { FieldSeqs(n) : n \in (MaxParts - 2)..MaxParts },
                     e \in Ends }

ParseInit ==
    /\ line \in Lines
    /\ pc = "parse_line"
    /\ ret = None
    /\ last = "init"
    /\ stream = <<>>
    /\ client_address = <<Addr2, 6>>
    /\ sockPos = 0
    /\ sockClosed = FALSE
    /\ wrapped = FALSE
    /\ buf = BytesIO
    /\ args = NoArgs
    /\ sockCalled = FALSE
    /\ logical = <<>>
    /\ start = 0
    /\ outcome = NoOutcome
    /\ got = <<>>
    /\ sock0 = 0
    /\ crlfSplit = FALSE
    /\ hookCalled = FALSE
    /\ again = FALSE

\* parse_line(line) is called
ParseLine ==
    /\ pc = "parse_line"
    /\ ret' = parse_line(line)
    /\ last' = "parse_line"
    /\ pc' = "idle"
    /\ UNCHANGED <<stream, client_address, sockPos, sockClosed, wrapped, buf,
                   args, sockCalled, logical, start, outcome, got, line, sock0,
                   crlfSplit, hookCalled, again>>

ParseNext == ParseLine

ParseSpec == ParseInit /\ [][ParseNext]_vars

(***************************************************************************)
(* Properties                                                              *)
(***************************************************************************)
HasCRLF(s) == \E i \in 1..(Len(s) - 1) : s[i] = CR /\ s[i + 1] = LF

\* the first CRLF-terminated line of s, for s with a CRLF
FirstLine(s) ==
    LET ends == {n \in 2..Len(s) : s[n - 1] = CR /\ s[n] = LF}
    IN SubSeq(s, 1, CHOOSE n \in ends : \A m \in ends : n <= m)

\* what the connection had still to deliver when the last probe began
Offered == Drop(stream, start)

\* what self.request has still to deliver: pending bytes, then the socket's
Pending == getvalue(buf) \o SockRest

\* proxy_protocol has just returned or raised, on an open connection
Returned ==
    /\ pc = "idle" /\ last = "proxy_protocol" /\ ~sockClosed
    /\ args.error \in {"raise", "unread"}

\* only receives were made since the last probe, on an open connection
Since(o) == pc = "idle" /\ ~sockClosed /\ outcome = o

\* the default argument as the caller means it
TheDefault ==
    IF args.default = "peer"
    THEN ProxyInfo(client_address[1], client_address[2],
                   client_address[1], client_address[2])
    ELSE None

\* C1: the bytes taken out of the adapter and not pushed back are a prefix of
\* the socket's stream, and they, the pending bytes and what the socket has
\* left make up the stream: nothing is lost, duplicated or reordered.
C1_AdapterTransparency ==
    ~sockClosed =>
        /\ logical = Take(stream, Len(logical))
        /\ logical \o getvalue(buf) \o SockRest = stream

C1_Witness ==
    /\ pc = "idle" /\ last = "unread" /\ ~sockClosed
    /\ logical # <<>> /\ Len(getvalue(buf)) >= 2 /\ SockRest # <<>>

\* C2: with error='unread', when the first line offered is not a valid PROXY
\* line, proxy_protocol returns the default, and what is then received from
\* self.request, followed by what it has still to deliver, is what the
\* connection offered from the first byte of that line.
C2_RestoreOnParseFailure ==
    /\ (/\ Returned /\ args.error = "unread"
        /\ HasCRLF(Offered) /\ IsParseError(parse_line(FirstLine(Offered))))
       => /\ ret = TheDefault
          /\ outcome \in {<<"InvalidLine", "unread">>,
                          <<"LineTooLong", "unread">>}
    /\ (/\ pc = "idle" /\ ~sockClosed /\ outcome[2] = "unread"
        /\ outcome[1] \in {"InvalidLine", "LineTooLong"}
        /\ HasCRLF(Offered) /\ IsParseError(parse_line(FirstLine(Offered))))
       => got \o Pending = Offered

C2_Witness ==
    /\ Since(<<"InvalidLine", "unread">>) /\ last = "recv"
    /\ start = 0 /\ crlfSplit /\ stream # <<>> /\ got = stream

\* C3: when the line offered is a well-formed PROXY line (within the limit,
\* and accepted by the hook when authenticating), proxy_protocol returns its
\* ProxyInfo, and what is then received from self.request, followed by what
\* it has still to deliver, is exactly what follows the line's CRLF.
C3_StripOnSuccess ==
    /\ (/\ Returned
        /\ HasCRLF(Offered)
        /\ parse_line(FirstLine(Offered)).kind = "ProxyInfo"
        /\ args.limit = NoLimit \/ args.limit > Len(FirstLine(Offered))
        /\ args.authenticate =>
              <<parse_line(FirstLine(Offered)).destination_address,
                parse_line(FirstLine(Offered)).destination_port>>
                  = client_address)
       => /\ ret = parse_line(FirstLine(Offered))
          /\ outcome = <<"ProxyInfo", "returned">>
    /\ Since(<<"ProxyInfo", "returned">>)
       => /\ HasCRLF(Offered)
          /\ got \o Pending = Drop(Offered, Len(FirstLine(Offered)))

C3_Witness ==
    /\ Since(<<"ProxyInfo", "returned">>) /\ last = "recv" /\ ~sockCalled
    /\ start = 0 /\ stream = V6Line \o Hi \o CRLF /\ got = Hi \o CRLF

\* C4: with error='unread' and a limit, when the first line offered is longer
\* than the limit, proxy_protocol returns the default, and what is then
\* received from self.request, followed by what it has still to deliver, is
\* everything the connection offered: the long line, its CRLF and the rest.
C4_OverflowKeepsStream ==
    /\ (/\ Returned /\ args.error = "unread" /\ args.limit # NoLimit
        /\ HasCRLF(Offered) /\ Len(FirstLine(Offered)) > args.limit)
       => /\ ret = TheDefault
          /\ outcome = <<"LineTooLong", "unread">>
    /\ Since(<<"LineTooLong", "unread">>) => got \o Pending = Offered

C4_Witness ==
    /\ Since(<<"LineTooLong", "unread">>) /\ last = "recv"
    /\ start = 0 /\ stream = PROXY \o <<SP, 88>> \o CRLF \o Hi \o CRLF
    /\ got = stream

\* a probe with error='unread' has just ended on a ReadError
ReadErrorSuppressed ==
    /\ Returned
    /\ outcome \in {<<"LineTooLong", "unread">>, <<"NoLine", "unread">>}

\* C5 as stated: after a ReadError under 'unread' the default is returned and
\* the adapter holds none of the bytes the probe read from the socket: its
\* buffer is what it was when the probe began.
C5_ReadErrorDrains ==
    ReadErrorSuppressed =>
        /\ ret = TheDefault
        /\ getvalue(buf) = SubSeq(stream, start + 1, sock0)

\* C5 amended: after a ReadError under 'unread' the default is returned,
\* nothing is pushed back, and every byte the probe read from the socket is
\* still pending in the adapter's buffer, in order, for the next receive.
C5_ReadErrorKeepsBytes ==
    ReadErrorSuppressed =>
        /\ ret = TheDefault
        /\ Len(logical) = start
        /\ getvalue(buf) = SubSeq(stream, start + 1, sockPos)
        /\ tell(buf) = Len(getvalue(buf))

C5_Witness ==
    /\ ReadErrorSuppressed /\ outcome[1] = "NoLine"
    /\ sockPos > sock0 /\ getvalue(buf) = stream /\ stream # <<>>

\* C6: with error='raise' a ReadError or ParseError leaves proxy_protocol as
\* that error, and after a ParseError the line is not pushed back: what
\* self.request delivers next starts after the line's CRLF.  With
\* error='unread' neither kind of error leaves proxy_protocol.
C6_RaisePropagates ==
    /\ (Returned /\ args.error = "raise" /\ outcome[1] \in {"LineTooLong", "NoLine"})
       => ret.kind = outcome[1]
    /\ (Returned /\ args.error = "raise" /\ ~HasCRLF(Offered))
       => IsReadError(ret)
    /\ (/\ Returned /\ args.error = "raise"
        /\ HasCRLF(Offered) /\ IsParseError(parse_line(FirstLine(Offered)))
        /\ args.limit = NoLimit \/ args.limit > Len(FirstLine(Offered)))
       => /\ ret = parse_line(FirstLine(Offered))
          /\ outcome = <<"InvalidLine", "raise">>
    /\ Since(<<"InvalidLine", "raise">>)
       => /\ HasCRLF(Offered)
          /\ got \o Pending = Drop(Offered, Len(FirstLine(Offered)))
    /\ (Returned /\ args.error = "unread")
       => ~IsReadError(ret) /\ ~IsParseError(ret)

C6_Witness ==
    /\ Since(<<"InvalidLine", "raise">>) /\ last = "recv"
    /\ start = 0 /\ got = Yo /\ Pending = <<>>

\* C7: SocketBuffer.recv(n) with pending bytes returns the first
\* min(n, len) of them, removes exactly those and does not call the socket;
\* with none pending it returns what the socket's recv(n) returns and leaves
\* the buffer empty.  It never returns more than n bytes.
C7_RecvContract ==
    [][\A n \in 1..MaxRecv :
          (Recv(n) /\ wrapped) =>
             IF getvalue(buf) # <<>>
             THEN LET m == Min(n, Len(getvalue(buf)))
                  IN /\ ret' = Bytes(Take(getvalue(buf), m))
                     /\ getvalue(buf') = Drop(getvalue(buf), m)
                     /\ ~sockCalled'
                     /\ sockPos' = sockPos
             ELSE /\ sockCalled'
                  /\ getvalue(buf') = <<>>
                  /\ IF sockClosed THEN ret' = SocketError
                     ELSE /\ ret'.kind = "bytes"
                          /\ Len(ret'.data) <= n
                          /\ ret'.data = SubSeq(stream, sockPos + 1, sockPos')
      ]_vars

C7_Witness ==
    /\ pc = "idle" /\ last = "recv" /\ wrapped /\ ~sockCalled
    /\ ret.kind = "bytes" /\ Len(ret.data) = MaxRecv /\ getvalue(buf) # <<>>

\* C8 as stated: read_line with limit L returns the line whenever the first
\* CRLF offered ends within L bytes, however the bytes are split into
\* socket reads, and never returns a line longer than L.
C8_SucceedsWithinLimit ==
    (Returned /\ args.limit # NoLimit) =>
        /\ (HasCRLF(Offered) /\ Len(FirstLine(Offered)) <= args.limit)
           => /\ outcome[1] # "LineTooLong"
              /\ line = FirstLine(Offered)
        /\ Len(line) <= args.limit

\* C9: read_line without a limit, offered bytes with a CRLF, returns the
\* bytes up to and including the first CRLF however they are split into
\* socket reads, and every byte it read past the CRLF is pending in the
\* adapter's buffer, in order (behind the line, when the probe pushed it
\* back), with the buffer positioned at its end.
C9_ReadLineNoLimit ==
    (Returned /\ args.limit = NoLimit /\ HasCRLF(Offered)) =>
        /\ line = FirstLine(Offered)
        /\ getvalue(buf) =
              (IF outcome = <<"InvalidLine", "unread">> THEN line ELSE <<>>)
                 \o SubSeq(stream, start + Len(line) + 1, sockPos)
        /\ tell(buf) = Len(getvalue(buf))

C9_Witness ==
    /\ Returned /\ args.limit = NoLimit /\ crlfSplit
    /\ line # <<>> /\ sockPos > start + Len(line)
    /\ outcome[1] # "InvalidLine" \/ outcome[2] = "raise"

\* C10: read_line ends with NoLine exactly when the bytes offered hold no
\* CRLF and LineTooLong was not raised first; the socket has then returned
\* no data at the end of the stream, no line is returned, and the size
\* reported is the number of bytes accumulated in the buffer.
C10_NoLine ==
    Returned =>
        /\ outcome[1] = "NoLine"
              <=> (~HasCRLF(Offered) /\ outcome[1] # "LineTooLong")
        /\ outcome[1] = "NoLine" =>
              /\ sockCalled /\ sockPos = Len(stream)
              /\ line = <<>>
              /\ getvalue(buf) = Offered
              /\ args.error = "raise" => ret = NoLine(Len(Offered))

C10_Witness ==
    /\ Returned /\ outcome = <<"NoLine", "raise">>
    /\ ret = NoLine(2) /\ ~HasCRLF(stream)

(***************************************************************************)
(* parse_line: properties under ParseSpec                                  *)
(***************************************************************************)
\* parse_line has returned or raised
Parsed == pc = "idle" /\ last = "parse_line"

\* the fields of the line, when it ends with CRLF
Fields == split(Take(line, Len(line) - Len(CRLF)), SP)

\* addr is a valid address of the family
ValidAddress(inet, addr) ==
    IF inet = TCP4 THEN inet_pton4(addr) ELSE inet_pton6(addr)

\* C11: for every line PROXY SP family SP a1 SP a2 SP p1 SP p2 CRLF with
\* family TCP4 or TCP6, a1 and a2 valid addresses of the family and p1, p2
\* made of decimal digits, parse_line returns ProxyInfo(a1, p1 as a number,
\* a2, p2 as a number) with the address bytes as they are on the line; and
\* whatever the line, what comes out is an InvalidLine or a ProxyInfo with
\* all four fields, the ports being integers.
C11_FieldMapping ==
    Parsed =>
        /\ ( /\ Len(Fields) = 6
             /\ line = join(Fields) \o CRLF
             /\ Fields[1] = PROXY
             /\ Fields[2] \in {TCP4, TCP6}
             /\ ValidAddress(Fields[2], Fields[3])
             /\ ValidAddress(Fields[2], Fields[4])
             /\ AllDigits(Fields[5]) /\ AllDigits(Fields[6]) )
           => ret = [kind |-> "ProxyInfo",
                     source_address |-> Fields[3],
                     source_port |-> DecVal(Fields[5]),
                     destination_address |-> Fields[4],
                     destination_port |-> DecVal(Fields[6])]
        /\ ret.kind \in {"ProxyInfo", "InvalidLine"}
        /\ ret.kind = "ProxyInfo" =>
              /\ DOMAIN ret = {"kind", "source_address", "source_port",
                               "destination_address", "destination_port"}
              /\ ret.source_port \in Int /\ ret.destination_port \in Int
              /\ ret.source_address \in Addrs
              /\ ret.destination_address \in Addrs

\* b'PROXY TCP6 fe80::B3FF ::1 443 5\r\n' came out as
\* ProxyInfo('fe80::B3FF', 443, '::1', 5): the mixed-case address is kept
C11_Witness ==
    /\ Parsed
    /\ line = join(<<PROXY, TCP6,
                     <<102, 101, 56, 48, COLON, COLON, 66, 51, 70, 70>>,
                     Addr1, <<52, 52, 51>>, <<53>> >>) \o CRLF
    /\ ret.kind = "ProxyInfo"
    /\ ret.source_address = <<102, 101, 56, 48, COLON, COLON, 66, 51, 70, 70>>
    /\ ret.source_port = 443
    /\ ret.destination_address = Addr1
    /\ ret.destination_port = 5

\* an optional sign and decimal digits
DecimalInteger(s) ==
    \/ AllDigits(s)
    \/ s # <<>> /\ s[1] \in {43, 45} /\ AllDigits(Tail(s))

\* the line is a preamble of the wire grammar
WireGrammar ==
    /\ endswith(line, CRLF)
    /\ Len(Fields) = 6
    /\ Fields[1] = PROXY
    /\ Fields[2] \in {TCP4, TCP6}
    /\ ValidAddress(Fields[2], Fields[3])
    /\ ValidAddress(Fields[2], Fields[4])
    /\ DecimalInteger(Fields[5])
    /\ DecimalInteger(Fields[6])

\* C12: parse_line returns a ProxyInfo only for a line that ends with CRLF
\* and has exactly the six fields PROXY, TCP4 or TCP6, two valid addresses
\* of the family and two base-10 integers; every other line raises
\* InvalidLine.
C12_OnlyWireGrammar ==
    Parsed =>
        /\ ret.kind = "ProxyInfo" => WireGrammar
        /\ ~WireGrammar => ret.kind = "InvalidLine"

Prefix == Text("Missing \"PROXY\" prefix")
Terminal == Text("Missing \"\\r\\n\" terminal")
PartCount == Text("Expected 6 \" \" delimited parts")

\* C13: a line that does not start with PROXY raises InvalidLine for the
\* missing prefix, with or without a CRLF at its end; a line that starts
\* with PROXY and does not end with CRLF raises InvalidLine for the missing
\* terminator, however many fields it has; the field count is the reason
\* only for lines that start with PROXY and end with CRLF.
C13_ErrorPrecedence ==
    Parsed =>
        /\ ~startswith(line, PROXY) =>
              ret.kind = "InvalidLine" /\ ret.reason = Prefix
        /\ startswith(line, PROXY) /\ ~endswith(line, CRLF) =>
              ret.kind = "InvalidLine" /\ ret.reason = Terminal
        /\ ret.kind = "InvalidLine" /\ ret.reason = PartCount =>
              startswith(line, PROXY) /\ endswith(line, CRLF)

\* a line of five fields with CRLF and without the prefix raised the prefix
\* error, not the field-count one
C13_Witness ==
    /\ Parsed
    /\ ~startswith(line, PROXY)
    /\ endswith(line, CRLF)
    /\ Len(Fields) = 5
    /\ ret.kind = "InvalidLine"
    /\ ret.reason = Prefix

\* the reasons parse_line gives
Reasons ==
    { Prefix, Terminal, PartCount, Text("Invalid port") }
    \cup { Format("Invalid INET {0} address(es)", inet) : inet \in {TCP4, TCP6} }
    \cup { Format("Unsupported INET \"{0}\"", inet) : inet \in Inets }

\* C14: every InvalidLine parse_line raises has the line it was given as its
\* line attribute and the text of the cause as its reason.
C14_CarriesLine ==
    Parsed /\ ret.kind = "InvalidLine" =>
        line = ret.line /\ \E reason \in Reasons : reason = ret.reason

(***************************************************************************)
(* proxy_protocol and SocketBuffer: further properties under Spec          *)
(***************************************************************************)
\* the last call was a proxy_protocol whose read_line returned a line that
\* parses
ReturnedParsed ==
    /\ pc = "idle" /\ last = "proxy_protocol"
    /\ args.error \in {"raise", "unread"}
    /\ line # <<>>
    /\ parse_line(line).kind = "ProxyInfo"

\* the destination of the parsed line is the peer
DestinationIsPeer ==
    LET info == parse_line(line)
    IN info.destination_address = client_address[1]
       /\ info.destination_port = client_address[2]

\* C15: when the line parses and authenticate is true, proxy_protocol
\* invokes the hook and returns the parsed ProxyInfo if the hook accepts it;
\* if the hook refuses it, proxy_protocol returns the default, which is not
\* the parsed info and no exception, under 'raise' as under 'unread'.  When
\* authenticate is false the hook is not invoked and the parsed ProxyInfo is
\* returned.
C15_AuthFailsClosed ==
    ReturnedParsed =>
        IF args.authenticate
        THEN /\ hookCalled
             /\ IF DestinationIsPeer
                THEN ret = parse_line(line)
                ELSE /\ ret = TheDefault
                     /\ ret # parse_line(line)
                     /\ ret.kind \in {"None", "ProxyInfo"}
        ELSE ~hookCalled /\ ret = parse_line(line)

\* under 'raise' with default 'peer' the hook refused the parsed line and
\* the caller got the peer's address, not the line's
C15_Witness ==
    /\ ReturnedParsed
    /\ args.authenticate /\ args.error = "raise" /\ args.default = "peer"
    /\ hookCalled /\ ~DestinationIsPeer
    /\ ret = TheDefault

\* the last k bytes taken out of self.request
LastTaken(k) == SubSeq(logical, Len(logical) - k + 1, Len(logical))

\* C16: unread(a) puts a in front of the pending bytes, which stay behind it
\* in their order and before the socket's data, and the position is at the
\* end of the content; a second unread(b) made next gives b, then a, then
\* the earlier content.
C16_UnreadOrdering ==
    [][\A k \in 1..MaxUnread :
          Unread(k) =>
             /\ getvalue(buf') = LastTaken(k) \o getvalue(buf)
             /\ tell(buf') = Len(getvalue(buf'))
             /\ sockPos' = sockPos
             /\ \A j \in 1..MaxUnread :
                   j <= Len(logical') =>
                      LET b == SubSeq(logical', Len(logical') - j + 1,
                                      Len(logical'))
                      IN getvalue(unread(buf', b))
                            = b \o LastTaken(k) \o getvalue(buf)
      ]_vars

\* after an unread more bytes are pending than one unread pushes back, and
\* they are the stream from where the application stands
C16_Witness ==
    /\ pc = "idle" /\ last = "unread"
    /\ Len(getvalue(buf)) > MaxUnread
    /\ logical # <<>>
    /\ getvalue(buf) \o SockRest = Drop(stream, Len(logical))

\* C17: close, from any state of the adapter, leaves the pending buffer
\* empty with its position at 0 and closes the socket, which was open and is
\* closed by it once and stays closed; from then on the buffer stays empty
\* and a receive on the adapter goes to the closed socket and delivers no
\* byte, buffered or pushed back before the close.
C17_CloseDiscards ==
    /\ [][Close =>
             /\ ~sockClosed /\ sockClosed'
             /\ wrapped => buf' = BytesIO
             /\ sockPos' = sockPos /\ logical' = logical
         ]_vars
    /\ [][sockClosed =>
             /\ sockClosed'
             /\ ~Close
             /\ wrapped' => buf' = BytesIO
             /\ \A n \in 1..MaxRecv :
                   Recv(n) => sockCalled' /\ ret' = SocketError
                              /\ logical' = logical
         ]_vars

\* a receive after a close that found bytes of the stream pending: the
\* buffer is empty, the socket was asked and nothing was delivered
C17_Witness ==
    /\ pc = "idle" /\ last = "recv" /\ sockClosed /\ wrapped
    /\ ret = SocketError /\ sockCalled
    /\ getvalue(buf) = <<>>
    /\ Len(logical) < sockPos

\* C18: whenever a call has returned or raised, and between the passes of
\* read_line's loop, the position of the pending buffer is the length of its
\* content, so it is 0 exactly when nothing is pending; a recv reads the
\* socket only when nothing is pending, and what it returns from the buffer
\* is the front of the pending content and no more.
C18_CursorAtEnd ==
    /\ tell(buf) = Len(getvalue(buf))
    /\ (tell(buf) = 0) <=> (getvalue(buf) = <<>>)
    /\ (pc = "idle" /\ last = "recv" /\ wrapped /\ ret.kind = "bytes") =>
          /\ sockCalled => getvalue(buf) = <<>>
          /\ (~sockClosed /\ logical # <<>>) =>
                /\ Len(ret.data) <= Len(logical)
                /\ ret.data = SubSeq(stream, Len(logical) - Len(ret.data) + 1,
                                     Len(logical))

\* read_line returned a line and left what it had read past it pending
C18_Witness ==
    /\ pc = "idle" /\ last = "proxy_protocol"
    /\ outcome = <<"ProxyInfo", "returned">>
    /\ getvalue(buf) # <<>>
    /\ tell(buf) = Len(getvalue(buf))

\* the line fits the limit of the running proxy_protocol
WithinLimit(ln) == args.limit = NoLimit \/ Len(ln) <= args.limit

\* C19: when proxy_protocol(error='unread') has returned the default for a
\* line that does not parse, that line is the first of the pending buffer; a
\* second proxy_protocol(error='unread') made next keeps the SocketBuffer
\* and its buffer, does not read the socket, finds that line again unless
\* its own limit is shorter than the line, returns its default and leaves
\* the buffer as it was.
C19_UnreadProbeIdempotent ==
    /\ [][(last = "proxy_protocol" /\ outcome = <<"InvalidLine", "unread">>) =>
             \A d \in Defaults, l \in Limits, a \in BOOLEAN :
                ProxyProtocol("unread", d, l, a) =>
                   /\ wrapped /\ wrapped'
                   /\ FirstLine(getvalue(buf)) = line
                   /\ buf' = buf
                   /\ sockPos' = sockPos
                   /\ again'
         ]_vars
    /\ [][(ReadLine /\ again /\ args.error = "unread") =>
             /\ pc' = "idle"
             /\ ~sockCalled' /\ sockPos' = sockPos
             /\ wrapped'
             /\ buf' = buf
             /\ ret' = default_value(args.default, client_address)
             /\ IF WithinLimit(FirstLine(getvalue(buf)))
                THEN /\ outcome' = <<"InvalidLine", "unread">>
                     /\ line' = FirstLine(getvalue(buf))
                ELSE outcome' = <<"LineTooLong", "unread">>
         ]_vars

\* the second probe has returned the default for the line the first one
\* pushed back, without a socket read
C19_Witness ==
    /\ pc = "idle" /\ last = "proxy_protocol" /\ again
    /\ args.error = "unread"
    /\ outcome = <<"InvalidLine", "unread">>
    /\ ~sockCalled /\ sockPos = sock0
    /\ ret = TheDefault
    /\ line # <<>> /\ startswith(getvalue(buf), line)

\* C20: proxy_protocol with an error argument that is neither 'raise' nor
\* 'unread' raises ValueError and does nothing else: self.request is wrapped
\* or not as before, the buffer and the socket's position are as before, the
\* socket was not read and the hook was not invoked.
C20_InvalidPolicyNoEffect ==
    [][(pc = "idle" /\ args'.error \in Errors \ {"raise", "unread"}) =>
          \A e \in Errors \ {"raise", "unread"}, d \in Defaults, l \in Limits,
             a \in BOOLEAN :
             ProxyProtocol(e, d, l, a) =>
                /\ ret' = ValueError
                /\ pc' = "idle"
                /\ wrapped' = wrapped
                /\ buf' = buf
                /\ sockPos' = sockPos
                /\ sockClosed' = sockClosed
                /\ logical' = logical
                /\ ~sockCalled'
                /\ ~hookCalled'
      ]_vars

\* error='ignore' on a request that is no SocketBuffer yet: ValueError, and
\* the request is still not wrapped
C20_Witness ==
    /\ pc = "idle" /\ last = "proxy_protocol"
    /\ args.error = "ignore"
    /\ ret = ValueError
    /\ ~wrapped
    /\ sockPos = 0 /\ ~sockCalled /\ ~hookCalled

=============================================================================
